---------------------------- MODULE Spec2Model ----------------------------
(***************************************************************************)
(* Model of drawdown_app.py: the drawdown kernel (calculate_drawdown), the *)
(* summary statistics, the cached fetch (get_stock_data) and the control   *)
(* flow of the main script.                                                *)
(*                                                                         *)
(* A pandas Series is a sequence of records [idx, val] (index label and    *)
(* value, in row order).  A DataFrame is represented by its 'Close'        *)
(* column, the only column the script reads.  Dates are day numbers.       *)
(* Prices are integers; every quotient is kept as an exact fraction        *)
(* [num, den], so no rounding is introduced by the model itself.           *)
(***************************************************************************)
EXTENDS Integers, Sequences, FiniteSets

\* ------------------------------------------------------------- bounds
\* Dates of the bounded provider histories are 1..MaxDate.
MaxDate == 3
\* Longest price series handed to the kernel on its own (SpecKernel).
MaxLen == 4
\* Number of get_stock_data calls followed in SpecCache.
MaxCalls == 3
\* Number of clock advances followed in SpecCache.
MaxAdvances == 2

\* Closing prices of the bounded provider histories (strictly positive).
PriceVals == {1, 2}
\* Values of the series handed to the kernel on its own: any integers.
KernelVals == {-2, 0, 1, 2, 3}

\* An optional value is a sequence of length 0 or 1: Python's None, or x.
None == <<>>

Some(x) == <<x>>

The(o) == o[1]

\* float('nan'), the fraction 0/0: what Series.min() and Series.mean() give
\* when there are no values.
NaN == [num |-> 0, den |-> 0]

\* ------------------------------------------------------ exact fractions
RECURSIVE GCD(_, _)
GCD(a, b) == IF b = 0 THEN a ELSE GCD(b, a % b)

Abs(n) == IF n < 0 THEN -n ELSE n

\* The fraction n / d in lowest terms with a positive denominator.  den = 0
\* stands for the float a division by zero yields (inf, or NaN for 0/0); it
\* is never compared.
Frac(n, d) ==
    IF d = 0 THEN [num |-> n, den |-> 0]
    ELSE LET g == GCD(Abs(n), Abs(d))
             sign == IF d < 0 THEN -1 ELSE 1
         IN  [num |-> sign * (n \div g), den |-> sign * (d \div g)]

\* n / d as pandas divides two numbers.
RatDiv(n, d) == Frac(n, d)

RatTimes(r, k) == Frac(r.num * k, r.den)

\* Comparisons of fractions with positive denominators.
RatLT(a, b) == a.num * b.den < b.num * a.den

RatLE(a, b) == a.num * b.den <= b.num * a.den

RatEQ(a, b) == a.num * b.den = b.num * a.den

RatAdd(a, b) == Frac(a.num * b.den + b.num * a.den, a.den * b.den)

RatOfInt(n) == [num |-> n, den |-> 1]

\* ------------------------------------------------------------- series
Idx(s) == [t \in 1..Len(s) |-> s[t].idx]

Vals(s) == [t \in 1..Len(s) |-> s[t].val]

IdxSet(s) == {s[t].idx : t \in 1..Len(s)}

\* Series.cummax(): a running maximum started at the first value;
\* peak[t] = max(peak[t-1], price[t]).
RECURSIVE RunningMax(_)
RunningMax(v) ==
    IF Len(v) <= 1 THEN v
    ELSE LET h == RunningMax(SubSeq(v, 1, Len(v) - 1))
             last == v[Len(v)]
             prev == h[Len(h)]
         IN  Append(h, IF last > prev THEN last ELSE prev)

\* A plausible slip: the running maximum lags one row behind.
cummax_lagging(s) ==
    LET m == RunningMax(Vals(s))
    IN  [t \in 1..Len(s) |-> [idx |-> s[t].idx, val |-> IF t = 1 THEN m[1] ELSE m[t - 1]]]

cummax(s) ==
    LET m == RunningMax(Vals(s))
    IN  [t \in 1..Len(s) |-> [idx |-> s[t].idx, val |-> m[t]]]

\* A plausible slip: the decline is taken from the price, not from the peak.
PctFromPeak_swapped(prices, cumulative_max) ==
    [t \in 1..Len(prices) |->
        [idx |-> prices[t].idx,
         val |-> RatTimes(RatDiv(cumulative_max[t].val - prices[t].val,
                                 cumulative_max[t].val), 100)]]

\* (prices - cumulative_max) / cumulative_max * 100, row by row.
PctFromPeak(prices, cumulative_max) ==
    [t \in 1..Len(prices) |->
        [idx |-> prices[t].idx,
         val |-> RatTimes(RatDiv(prices[t].val - cumulative_max[t].val,
                                 cumulative_max[t].val), 100)]]

\* calculate_drawdown(prices): returns (drawdown, cumulative_max).
calculate_drawdown(prices) ==
    LET cumulative_max == cummax(prices)
    IN  <<PctFromPeak(prices, cumulative_max), cumulative_max>>


\* ---------------------------------------------------- summary statistics
\* Series.min(): the least value; NaN for an empty series.
RECURSIVE MinVal(_)
MinVal(v) ==
    IF Len(v) = 0 THEN NaN
    ELSE IF Len(v) = 1 THEN v[1]
    ELSE LET m == MinVal(SubSeq(v, 1, Len(v) - 1))
         IN  IF RatLT(v[Len(v)], m) THEN v[Len(v)] ELSE m

SeriesMin(s) == MinVal(Vals(s))

\* A plausible slip: a later row replaces the minimum on a tie.
RECURSIVE ArgMin_last(_, _)
ArgMin_last(v, n) ==
    IF n = 1 THEN 1
    ELSE LET p == ArgMin_last(v, n - 1)
         IN  IF RatLE(v[n], v[p]) THEN n ELSE p

\* Position of the first occurrence of the least of v[1..n] (n >= 1).
RECURSIVE ArgMin(_, _)
ArgMin(v, n) ==
    IF n = 1 THEN 1
    ELSE LET p == ArgMin(v, n - 1)
         IN  IF RatLT(v[n], v[p]) THEN n ELSE p

\* Series.idxmin() raises ValueError on an empty series.
idxminRaises(s) == Len(s) = 0

\* Series.idxmin(): the index label of the first occurrence of the minimum.
idxmin(s) == s[ArgMin(Vals(s), Len(s))].idx

\* Series.iloc[-1]
iloc_last(s) == s[Len(s)].val

\* (drawdown < level).sum(): the number of rows below the level.
CountBelow(s, level) == Cardinality({t \in 1..Len(s) : RatLT(s[t].val, level)})

\* (drawdown <= level).sum(): the number of rows at or below the level.
CountAtOrBelow(s, level) == Cardinality({t \in 1..Len(s) : RatLE(s[t].val, level)})

RECURSIVE RatSum(_)
RatSum(v) == IF Len(v) = 0 THEN RatOfInt(0) ELSE RatAdd(RatSum(Tail(v)), Head(v))

\* drawdown[drawdown < 0].mean(): NaN when no value is negative.
MeanNegative(s) ==
    LET neg == SelectSeq(Vals(s), LAMBDA x : RatLT(x, RatOfInt(0)))
        sum == RatSum(neg)
    IN  IF Len(neg) = 0 THEN NaN
        ELSE Frac(sum.num, sum.den * Len(neg))

\* (drawdown < -0.5).sum() / len(drawdown) * 100
TimeInDrawdown(s) ==
    RatTimes(RatDiv(CountBelow(s, [num |-> -1, den |-> 2]), Len(s)), 100)

DaysAtOrBelow(s, level) == CountAtOrBelow(s, RatOfInt(level))

\* f"{x:.2f}": x to the nearest hundredth (exact ties to the even one), as
\* <<number of hundredths>>; <<>> for the text "nan".
Fmt2(r) ==
    IF r.den = 0 THEN <<>>
    ELSE LET n == r.num * 100
             q == n \div r.den
             rem == n % r.den
         IN  <<IF 2 * rem > r.den \/ (2 * rem = r.den /\ q % 2 = 1) THEN q + 1 ELSE q>>

\* f"{x:.1f}", as <<number of tenths>>.
Fmt1(r) ==
    IF r.den = 0 THEN <<>>
    ELSE LET n == r.num * 10
             q == n \div r.den
             rem == n % r.den
         IN  <<IF 2 * rem > r.den \/ (2 * rem = r.den /\ q % 2 = 1) THEN q + 1 ELSE q>>

\* date.strftime("%Y-%m-%d")
strftime(d) == <<"%Y-%m-%d", d>>

\* The statistics written for one drawdown series (lines 237-240).
StatLines(s) ==
    <<Fmt2(MeanNegative(s)), Fmt1(TimeInDrawdown(s)),
      <<DaysAtOrBelow(s, -10)>>, <<DaysAtOrBelow(s, -20)>>>>

\* ------------------------------------------------------------ provider
\* The histories the provider may answer with: every ascending series over
\* a subset of the dates 1..MaxDate with prices in PriceVals (the empty one
\* included), and the two series of the worked examples.
BoundedHistory(f) ==
    SelectSeq([d \in 1..MaxDate |-> [idx |-> d, val |-> f[d]]], LAMBDA r : r.val # 0)

ExampleA ==
    <<[idx |-> 1, val |-> 100], [idx |-> 2, val |-> 90], [idx |-> 3, val |-> 95],
      [idx |-> 4, val |-> 80], [idx |-> 5, val |-> 120]>>

ExampleB ==
    <<[idx |-> 2, val |-> 50], [idx |-> 3, val |-> 40], [idx |-> 4, val |-> 40],
      [idx |-> 5, val |-> 45], [idx |-> 6, val |-> 60]>>

Histories ==
    {BoundedHistory(f) : f \in [1..MaxDate -> PriceVals \cup {0}]} \cup {ExampleA, ExampleB}

\* stock.info: raises (None here), an empty dict, or a dict with a longName.
\* A dict is the set of its (key, value) pairs.
InfoOutcomes == {None, Some({}), Some({<<"longName", "Long Name Inc.">>})}

\* What yf.Ticker(ticker).history(period) and .info do on one call: the
\* history call raises, or it returns a frame (possibly empty) and .info
\* raises or returns a dict.
ProviderOutcomes ==
    {[raises |-> TRUE, df |-> <<>>, info |-> None]}
    \cup {[raises |-> FALSE, df |-> h, info |-> i] : h \in Histories, i \in InfoOutcomes}

\* get_stock_data(ticker, period), given what the provider does on this
\* call: (df, info), or (None, None) on an empty frame or any exception.
get_stock_data(ticker, period, outcome) ==
    IF outcome.raises THEN <<None, None>>
    ELSE IF Len(outcome.df) = 0 THEN <<None, None>>
    ELSE IF outcome.info = None THEN <<None, None>>
    ELSE <<Some(outcome.df), outcome.info>>

\* dict.get(key, default)
DictGet(dict, key, default) ==
    IF \E kv \in dict : kv[1] = key
    THEN (CHOOSE kv \in dict : kv[1] = key)[2]
    ELSE default

\* info.get('longName', ticker) if info else ticker
StockName(info, ticker) ==
    IF info # None /\ The(info) # {} THEN DictGet(The(info), "longName", ticker) ELSE ticker

\* ------------------------------------------------------------- sidebar
\* str.upper() on the ticker texts the sidebar can hold here.
Upper(text) ==
    CASE text = "spy" -> "SPY"
      [] text = "qqq" -> "QQQ"
      [] OTHER -> text

Ticker1Texts == {"", "spy", "SPY"}

Ticker2Texts == {"", "qqq", "QQQ"}

period_options ==
    [k \in {"1 Month", "3 Months", "6 Months", "1 Year", "2 Years", "5 Years",
            "10 Years", "Max"} |->
        CASE k = "1 Month" -> "1mo"
          [] k = "3 Months" -> "3mo"
          [] k = "6 Months" -> "6mo"
          [] k = "1 Year" -> "1y"
          [] k = "2 Years" -> "2y"
          [] k = "5 Years" -> "5y"
          [] k = "10 Years" -> "10y"
          [] k = "Max" -> "max"]

\* The selections of the period box followed by the model (index=3, the
\* one the box starts with).
SelectedPeriods == {"1 Year"}

\* --------------------------------------------------- index intersection
\* Index.intersection of two ascending indexes without duplicates: the
\* labels of the first that are in the second, in the first's order.
intersection(index1, index2) ==
    SelectSeq(index1, LAMBDA d : \E t \in 1..Len(index2) : index2[t] = d)

\* A plausible slip: the frame is left as fetched (never cut to the labels).
loc_uncut(df, labels) == df

\* df.loc[labels]: the rows of df with these labels, in the labels' order.
loc(df, labels) ==
    [t \in 1..Len(labels) |-> CHOOSE r \in {df[u] : u \in 1..Len(df)} : r.idx = labels[t]]

\* ---------------------------------------------------------------- state
VARIABLES
    \* sidebar inputs (lines 16-33)
    ticker1, ticker2, period, show_price_chart,
    \* the position of the script run, and the exception that ended it
    pc, raised,
    \* the script's names (lines 57-95) and the set of those bound so far
    df1, info1, df2, info2,
    stock_name1, prices1, drawdown1, cumulative_max1, max_drawdown1, max_drawdown_date1,
    stock_name2, prices2, drawdown2, cumulative_max2, max_drawdown2, max_drawdown_date2,
    bound,
    \* what get_stock_data returned for ticker 1 and ticker 2 in this run
    returned,
    \* the elements rendered on the page by the main branch, in order
    ui,
    \* the arguments of the calls of calculate_drawdown so far, in order
    calls,
    \* the kernel on its own: an input series and the result of the call
    kin, kout,
    \* the fetch cache: entries, clock (seconds), the last call and counters
    cache, now, lastCall, ncalls, advances

inputVars == <<ticker1, ticker2, period, show_price_chart>>

fetchVars == <<df1, info1, df2, info2, returned>>

stock1Vars ==
    <<stock_name1, prices1, drawdown1, cumulative_max1, max_drawdown1, max_drawdown_date1>>

stock2Vars ==
    <<stock_name2, prices2, drawdown2, cumulative_max2, max_drawdown2, max_drawdown_date2>>

runVars == <<inputVars, pc, raised, fetchVars, stock1Vars, stock2Vars, bound, ui, calls>>

kernelVars == <<kin, kout>>

cacheVars == <<cache, now, lastCall, ncalls, advances>>

vars == <<runVars, kernelVars, cacheVars>>

\* The kernel and the cache at rest (they take no step in a script run).
KernelIdle == kin = <<>> /\ kout = None

NoCall ==
    [args |-> <<>>, at |-> 0, hit |-> FALSE,
     found |-> [is |-> FALSE, at |-> 0, args |-> <<>>], value |-> <<None, None>>]

CacheIdle == cache = {} /\ now = 0 /\ lastCall = NoCall /\ ncalls = 0 /\ advances = 0

\* The script's names before the main branch binds any of them.
NamesUnbound ==
    /\ df1 = None /\ info1 = None /\ df2 = None /\ info2 = None
    /\ returned = <<None, None>>
    /\ stock_name1 = "" /\ prices1 = <<>> /\ drawdown1 = <<>> /\ cumulative_max1 = <<>>
    /\ max_drawdown1 = NaN /\ max_drawdown_date1 = 0
    /\ stock_name2 = "" /\ prices2 = <<>> /\ drawdown2 = <<>> /\ cumulative_max2 = <<>>
    /\ max_drawdown2 = NaN /\ max_drawdown_date2 = 0
    /\ bound = {}

\* ------------------------------------------------------ the script run
\* Lines 13-33: the sidebar has been filled in; the main branch is next.
Init ==
    /\ ticker1 \in {Upper(t) : t \in Ticker1Texts}
    /\ ticker2 \in {Upper(t) : t \in Ticker2Texts}
    /\ period \in {period_options[k] : k \in SelectedPeriods}
    /\ show_price_chart \in BOOLEAN
    /\ pc = "main" /\ raised = ""
    /\ NamesUnbound
    /\ ui = <<>> /\ calls = <<>>
    /\ KernelIdle /\ CacheIdle

\* Lines 55, 258-259: no ticker 1, the prompt.
Prompt ==
    /\ pc = "main" /\ ticker1 = ""
    /\ ui' = Append(ui, [kind |-> "info", about |-> <<>>, body |-> <<>>])
    /\ pc' = "footer"
    /\ UNCHANGED <<inputVars, raised, fetchVars, stock1Vars, stock2Vars, bound, calls,
                   kernelVars, cacheVars>>

\* Lines 55-62: fetch ticker 1, and ticker 2 when one is entered.  Whether
\* a call is answered by the cache or by the provider, what it returns is
\* what get_stock_data returned for some behaviour of the provider.
Fetch ==
    /\ pc = "main" /\ ticker1 # ""
    /\ \E o1 \in ProviderOutcomes, o2 \in ProviderOutcomes :
          LET r1 == get_stock_data(ticker1, period, o1)
              r2 == IF ticker2 # "" THEN get_stock_data(ticker2, period, o2)
                    ELSE <<None, None>>
          IN  /\ df1' = r1[1] /\ info1' = r1[2]
              /\ df2' = r2[1] /\ info2' = r2[2]
              /\ returned' = <<r1[1], r2[1]>>
    /\ bound' = bound \cup {"df1", "info1", "df2", "info2"}
    /\ pc' = "stock1"
    /\ UNCHANGED <<inputVars, raised, stock1Vars, stock2Vars, ui, calls,
                   kernelVars, cacheVars>>

\* Lines 64-74: the drawdown of stock 1 on its full series, when it has one.
Stock1 ==
    /\ pc = "stock1"
    /\ IF df1 # None /\ Len(The(df1)) # 0
       THEN LET r == calculate_drawdown(The(df1))
            IN  /\ stock_name1' = StockName(info1, ticker1)
                /\ prices1' = The(df1)
                /\ drawdown1' = r[1]
                /\ cumulative_max1' = r[2]
                /\ max_drawdown1' = SeriesMin(r[1])
                /\ max_drawdown_date1' = idxmin(r[1])
                /\ calls' = Append(calls, The(df1))
                /\ bound' = bound \cup {"stock_name1", "prices1", "drawdown1",
                                        "cumulative_max1", "max_drawdown1",
                                        "max_drawdown_date1"}
       ELSE UNCHANGED <<stock1Vars, calls, bound>>
    /\ pc' = "stock2"
    /\ UNCHANGED <<inputVars, raised, fetchVars, stock2Vars, ui, kernelVars, cacheVars>>

\* Lines 77, 256-257: no frame for stock 2, the error message.
Error ==
    /\ pc = "stock2"
    /\ ~(df2 # None /\ Len(The(df2)) # 0)
    /\ ui' = Append(ui, [kind |-> "error", about |-> <<ticker1>>,
                         body |-> <<"Unable to fetch data for ticker">>])
    /\ pc' = "footer"
    /\ UNCHANGED <<inputVars, raised, fetchVars, stock1Vars, stock2Vars, bound, calls,
                   kernelVars, cacheVars>>

\* Lines 77-83: both frames cut to their common dates.  df1.index raises
\* AttributeError when df1 is None.
Align ==
    /\ pc = "stock2"
    /\ df2 # None /\ Len(The(df2)) # 0
    /\ stock_name2' = StockName(info2, ticker2)
    /\ IF df1 = None
       THEN /\ raised' = "AttributeError" /\ pc' = "raised"
            /\ UNCHANGED <<df1, df2>>
       ELSE LET common_dates == intersection(Idx(The(df1)), Idx(The(df2)))
            IN  /\ df1' = Some(loc(The(df1), common_dates))
                /\ df2' = Some(loc(The(df2), common_dates))
                /\ pc' = "recalc1"
                /\ UNCHANGED raised
    /\ bound' = bound \cup ({"stock_name2"} \cup
                            IF df1 = None THEN {} ELSE {"common_dates"})
    /\ UNCHANGED <<inputVars, info1, info2, returned, stock1Vars, prices2, drawdown2,
                   cumulative_max2, max_drawdown2, max_drawdown_date2, ui, calls,
                   kernelVars, cacheVars>>

\* Lines 86-89: stock 1 again, on the aligned frame.  idxmin raises
\* ValueError on an empty series, after the three names before it are bound.
Recalc1 ==
    /\ pc = "recalc1"
    /\ LET r == calculate_drawdown(The(df1))
       IN  /\ prices1' = The(df1)
           /\ drawdown1' = r[1]
           /\ cumulative_max1' = r[2]
           /\ max_drawdown1' = SeriesMin(r[1])
           /\ calls' = Append(calls, The(df1))
           /\ IF idxminRaises(r[1])
              THEN /\ raised' = "ValueError" /\ pc' = "raised"
                   /\ UNCHANGED max_drawdown_date1
              ELSE /\ max_drawdown_date1' = idxmin(r[1])
                   /\ pc' = "calc2"
                   /\ UNCHANGED raised
           /\ bound' = bound \cup ({"prices1", "drawdown1", "cumulative_max1",
                                    "max_drawdown1"} \cup
                                   IF idxminRaises(r[1]) THEN {}
                                   ELSE {"max_drawdown_date1"})
    /\ UNCHANGED <<inputVars, fetchVars, stock_name1, stock2Vars, ui, kernelVars, cacheVars>>

\* Lines 92-95: stock 2 on the aligned frame.
Calc2 ==
    /\ pc = "calc2"
    /\ LET r == calculate_drawdown(The(df2))
       IN  /\ prices2' = The(df2)
           /\ drawdown2' = r[1]
           /\ cumulative_max2' = r[2]
           /\ max_drawdown2' = SeriesMin(r[1])
           /\ calls' = Append(calls, The(df2))
           /\ IF idxminRaises(r[1])
              THEN /\ raised' = "ValueError" /\ pc' = "raised"
                   /\ UNCHANGED max_drawdown_date2
              ELSE /\ max_drawdown_date2' = idxmin(r[1])
                   /\ pc' = "display"
                   /\ UNCHANGED raised
           /\ bound' = bound \cup ({"prices2", "drawdown2", "cumulative_max2",
                                    "max_drawdown2"} \cup
                                   IF idxminRaises(r[1]) THEN {}
                                   ELSE {"max_drawdown_date2"})
    /\ UNCHANGED <<inputVars, fetchVars, stock1Vars, stock_name2, ui, kernelVars, cacheVars>>

\* ------------------------------------------------------------- display
Element(kind, about, body) == [kind |-> kind, about |-> about, body |-> body]

Metric(label, text) == Element("metric", label, text)

Trace(name, x, y) == [name |-> name, x |-> x, y |-> y]

\* Line 98 (and 133, 206, 220, 233): ticker2 and df2 is not None
Comparing == ticker2 # "" /\ df2 # None

\* Lines 98-128: the metrics row.
Metrics ==
    IF Comparing
    THEN <<Metric(<<ticker1, "Price">>, Fmt2(RatOfInt(iloc_last(prices1)))),
           Metric(<<ticker1, "Max DD">>, Fmt2(max_drawdown1)),
           Metric(<<ticker1, "Max DD Date">>, strftime(max_drawdown_date1)),
           Metric(<<ticker1, "Current DD">>, Fmt2(iloc_last(drawdown1))),
           Metric(<<ticker2, "Price">>, Fmt2(RatOfInt(iloc_last(prices2)))),
           Metric(<<ticker2, "Max DD">>, Fmt2(max_drawdown2)),
           Metric(<<ticker2, "Max DD Date">>, strftime(max_drawdown_date2)),
           Metric(<<ticker2, "Current DD">>, Fmt2(iloc_last(drawdown2)))>>
    ELSE <<Metric(<<"Current Price">>, Fmt2(RatOfInt(iloc_last(prices1)))),
           Metric(<<"Max Drawdown">>, Fmt2(max_drawdown1)),
           Metric(<<"Max DD Date">>, strftime(max_drawdown_date1)),
           Metric(<<"Current Drawdown">>, Fmt2(iloc_last(drawdown1)))>>

\* Lines 131-187: the price chart, when it is switched on.
PriceChart ==
    IF ~show_price_chart THEN <<>>
    ELSE IF Comparing
    THEN <<Element("price_chart", <<ticker1, "vs", ticker2, "Price Comparison">>,
                   <<Trace(<<ticker1, "Price">>, Idx(The(df1)), Vals(The(df1))),
                     Trace(<<ticker1, "Peak">>, Idx(The(df1)), Vals(cumulative_max1)),
                     Trace(<<ticker2, "Price">>, Idx(The(df2)), Vals(The(df2))),
                     Trace(<<ticker2, "Peak">>, Idx(The(df2)), Vals(cumulative_max2))>>)>>
    ELSE <<Element("price_chart", <<stock_name1, ticker1, "Price Chart">>,
                   <<Trace(<<"Price">>, Idx(The(df1)), Vals(The(df1))),
                     Trace(<<"All-Time High">>, Idx(The(df1)), Vals(cumulative_max1))>>)>>

\* Lines 190-229: the drawdown chart with the maximum drawdown markers.
DrawdownChart ==
    <<Element("drawdown_chart",
              IF Comparing THEN <<ticker1, "vs", ticker2, "Drawdown Comparison">>
              ELSE <<stock_name1, ticker1, "Drawdown Chart">>,
              <<Trace(<<ticker1, "Drawdown">>, Idx(The(df1)), Vals(drawdown1)),
                Trace(<<ticker1, "Max DD">>, <<max_drawdown_date1>>, <<max_drawdown1>>)>>
              \o (IF Comparing
                  THEN <<Trace(<<ticker2, "Drawdown">>, Idx(The(df2)), Vals(drawdown2)),
                         Trace(<<ticker2, "Max DD">>, <<max_drawdown_date2>>,
                               <<max_drawdown2>>)>>
                  ELSE <<>>))>>

\* Lines 232-254: the statistics panel.
Statistics ==
    <<Element("statistics", <<"Drawdown Statistics">>,
              IF Comparing
              THEN <<[subheader |-> ticker1, lines |-> StatLines(drawdown1)],
                     [subheader |-> ticker2, lines |-> StatLines(drawdown2)]>>
              ELSE <<[subheader |-> "", lines |-> StatLines(drawdown1)]>>)>>

\* The names lines 98-254 read; reading one that is not bound raises NameError.
DisplayReads ==
    {"df1", "prices1", "drawdown1", "cumulative_max1", "max_drawdown1",
     "max_drawdown_date1"}
    \cup (IF Comparing
          THEN {"df2", "prices2", "drawdown2", "cumulative_max2", "max_drawdown2",
                "max_drawdown_date2"}
          ELSE {"stock_name1"})

\* Lines 98-254: metrics, charts and statistics.
Display ==
    /\ pc = "display"
    /\ IF DisplayReads \subseteq bound
       THEN /\ ui' = ui \o Metrics \o PriceChart \o DrawdownChart \o Statistics
            /\ pc' = "footer"
            /\ UNCHANGED raised
       ELSE /\ raised' = "NameError" /\ pc' = "raised"
            /\ UNCHANGED ui
    /\ UNCHANGED <<inputVars, fetchVars, stock1Vars, stock2Vars, bound, calls,
                   kernelVars, cacheVars>>

\* Lines 261-263: the footer, reached by every run that did not raise.
Footer ==
    /\ pc = "footer"
    /\ ui' = Append(ui, Element("caption", <<>>, <<"Data provided by Yahoo Finance">>))
    /\ pc' = "done"
    /\ UNCHANGED <<inputVars, raised, fetchVars, stock1Vars, stock2Vars, bound, calls,
                   kernelVars, cacheVars>>

Next ==
    \/ Prompt
    \/ Fetch
    \/ Stock1
    \/ Error
    \/ Align
    \/ Recalc1
    \/ Calc2
    \/ Display
    \/ Footer

Spec == Init /\ [][Next]_vars

\* ------------------------------------------------- the kernel on its own
\* The sidebar as it is first shown (lines 16-33), and no run under way.
RunIdle ==
    /\ ticker1 = Upper("SPY") /\ ticker2 = Upper("")
    /\ period = period_options["1 Year"] /\ show_price_chart = TRUE
    /\ pc = "idle" /\ raised = ""
    /\ NamesUnbound
    /\ ui = <<>> /\ calls = <<>>

\* Every series of at most MaxLen rows with values in KernelVals, indexed
\* by the dates 1, 2, ...
KernelInputs ==
    UNION {{[t \in 1..n |-> [idx |-> t, val |-> v[t]]] : v \in [1..n -> KernelVals]} :
           n \in 0..MaxLen}

InitKernel ==
    /\ kin \in KernelInputs
    /\ kout = None
    /\ RunIdle /\ CacheIdle

\* Lines 49-52: one call of calculate_drawdown on the input series.
KernelCall ==
    /\ kout = None
    /\ kout' = Some(calculate_drawdown(kin))
    /\ UNCHANGED <<kin, runVars, cacheVars>>

NextKernel == KernelCall

SpecKernel == InitKernel /\ [][NextKernel]_vars

\* -------------------------------------------------------- the fetch cache
\* @st.cache_data(ttl=3600): seconds an entry is kept (line 36).
ttl_doubled == 2 * 3600

ttl == 3600

\* The cache key of a call: the arguments of the decorated function.
CacheKey(tkr, per) == <<tkr, per>>

CacheTickers == {"SPY", "QQQ"}

CachePeriods == {period_options["1 Month"], period_options["1 Year"]}

\* Seconds by which the clock moves between calls.
ClockSteps == {1800, 3600, 3601}

\* What the provider does on a call made at time `at`: it raises, or it
\* returns a frame (one row, labelled with the request it answers).
CacheOutcomes(tkr, per, at) ==
    {[raises |-> TRUE, df |-> <<>>, info |-> None],
     [raises |-> FALSE, df |-> <<[idx |-> <<tkr, per, at>>, val |-> 1]>>,
      info |-> Some({})]}

InitCache ==
    /\ CacheIdle
    /\ RunIdle /\ KernelIdle

Advance ==
    /\ advances < MaxAdvances
    /\ \E d \in ClockSteps : now' = now + d
    /\ advances' = advances + 1
    /\ UNCHANGED <<cache, lastCall, ncalls, runVars, kernelVars>>

\* An entry answers a call while it is younger than ttl; at exactly ttl
\* seconds the cache may already have dropped it, or not yet.
MayHit(e) == now - e.at <= ttl

MayMiss(e) == now - e.at >= ttl

\* Lines 36-46: a call of the cached get_stock_data.  An entry of the same
\* key that has not expired is returned as stored; otherwise the function
\* body runs and its result is stored under the key with the time.
Call(tkr, per) ==
    /\ ncalls < MaxCalls
    /\ ncalls' = ncalls + 1
    /\ LET k == CacheKey(tkr, per)
           found == {e \in cache : e.key = k}
           seen == IF found = {} THEN [is |-> FALSE, at |-> 0, args |-> <<>>]
                   ELSE LET e == CHOOSE e \in found : TRUE
                        IN  [is |-> TRUE, at |-> e.at, args |-> e.args]
       IN  \/ \E e \in found :
                /\ MayHit(e)
                /\ lastCall' = [args |-> <<tkr, per>>, at |-> now, hit |-> TRUE,
                                found |-> seen, value |-> e.value]
                /\ UNCHANGED cache
           \/ /\ \A e \in found : MayMiss(e)
              /\ \E o \in CacheOutcomes(tkr, per, now) :
                    LET value == get_stock_data(tkr, per, o)
                    IN  /\ cache' = (cache \ found) \cup
                                    {[key |-> k, at |-> now, args |-> <<tkr, per>>,
                                      value |-> value]}
                        /\ lastCall' = [args |-> <<tkr, per>>, at |-> now,
                                        hit |-> FALSE, found |-> seen, value |-> value]
    /\ UNCHANGED <<now, advances, runVars, kernelVars>>

NextCache ==
    \/ Advance
    \/ \E tkr \in CacheTickers, per \in CachePeriods : Call(tkr, per)

SpecCache == InitCache /\ [][NextCache]_vars

\* ================================================================ claims
Ended == pc \in {"done", "raised"}

\* The fetch of this run has been made (line 57 has run).
Fetched == "df1" \in bound

Rendered(kind) == \E t \in 1..Len(ui) : ui[t].kind = kind

Errors == {t \in 1..Len(ui) : ui[t].kind = "error"}

NoData1 == Fetched /\ returned[1] = None

NoData2 == Fetched /\ ticker2 # "" /\ returned[2] = None

\* C1: every run with ticker 1 entered, ticker 2 blank and a non-empty
\* series returned for ticker 1 ends with the metrics, the drawdown chart
\* and the statistics panel rendered, and without the 'Unable to fetch
\* data' error.
C1_SingleTickerRenders ==
    (Ended /\ Fetched /\ ticker2 = "" /\ returned[1] # None)
        => /\ Rendered("metric") /\ Rendered("drawdown_chart") /\ Rendered("statistics")
           /\ Errors = {}

\* C2: every run in which an entered ticker got (None, None) ends with
\* exactly one error message, and that message names a ticker for which no
\* data was returned.
C2_OneErrorNamingOffender ==
    (Ended /\ (NoData1 \/ NoData2))
        => /\ Cardinality(Errors) = 1
           /\ \A t \in Errors :
                 \/ NoData1 /\ ui[t].about = <<ticker1>>
                 \/ NoData2 /\ ui[t].about = <<ticker2>>

\* C3: whatever the two fetches return, a run ends in the prompt, in the
\* error message or in the rendered charts and statistics, never in an
\* uncaught exception.
C3_NoUncaughtException ==
    Ended => /\ pc = "done" /\ raised = ""
             /\ Rendered("info") \/ Rendered("error") \/ Rendered("statistics")

\* C4: a run that shows the 'Unable to fetch data' message has not called
\* calculate_drawdown before.
C4_ErrorWithoutKernel == Errors # {} => calls = <<>>

\* C10: every drawdown series on which min / idxmin, iloc[-1] or the
\* division by len is evaluated is non-empty.
C10_StatisticsInputsNonEmpty ==
    /\ "drawdown1" \in bound => Len(drawdown1) > 0
    /\ "drawdown2" \in bound => Len(drawdown2) > 0

\* ---- the kernel (SpecKernel)
Positive(s) == \A t \in 1..Len(s) : s[t].val > 0

Zero == RatOfInt(0)

\* C5: for every non-empty series of strictly positive prices, the drawdown
\* series calculate_drawdown returns has the length of the input, every
\* value of it is <= 0, and its first value is exactly 0.
C5_DrawdownNonPositive ==
    (kout # None /\ Len(kin) > 0 /\ Positive(kin))
        => LET drawdown == The(kout)[1]
           IN  /\ Len(drawdown) = Len(kin)
               /\ \A t \in 1..Len(drawdown) : RatLE(drawdown[t].val, Zero)
               /\ RatEQ(drawdown[1].val, Zero)

\* A positive series of three or more rows that falls below its peak.
C5_Witness ==
    /\ kout # None /\ Len(kin) >= 3 /\ Positive(kin)
    /\ \E t \in 1..Len(kin) : RatLT(The(kout)[1][t].val, Zero)

\* The greatest of the first t values of s, as a set maximum.
MaxOfPrefix(s, t) ==
    CHOOSE m \in {s[u].val : u \in 1..t} : \A u \in 1..t : s[u].val <= m

\* C6: for every price series, the running peak calculate_drawdown returns
\* has the length of the input, is non-decreasing, is >= the price at every
\* row, and at row t equals the maximum of the prices of rows 0..t.
C6_RunningPeak ==
    kout # None
        => LET peak == The(kout)[2]
           IN  /\ Len(peak) = Len(kin)
               /\ \A t \in 1..Len(peak) - 1 : peak[t].val <= peak[t + 1].val
               /\ \A t \in 1..Len(peak) :
                     /\ peak[t].val >= kin[t].val
                     /\ peak[t].val = MaxOfPrefix(kin, t)
                     /\ peak[t].idx = kin[t].idx

\* A series with a non-positive value whose peak rises after a fall.
C6_Witness ==
    /\ kout # None /\ Len(kin) >= 3
    /\ \E t \in 1..Len(kin) : kin[t].val <= 0
    /\ \E t \in 2..Len(kin) - 1 :
          /\ kin[t].val < kin[t - 1].val
          /\ The(kout)[2][t + 1].val > The(kout)[2][t].val

\* ---- two tickers (Spec)
BothReturned == Fetched /\ returned[1] # None /\ returned[2] # None

CommonDates == IdxSet(The(returned[1])) \cap IdxSet(The(returned[2]))

Ascending(s) == \A t \in 1..Len(s) - 1 : s[t].idx < s[t + 1].idx

Rows(s) == {s[t] : t \in 1..Len(s)}

\* s holds exactly the rows of original dated in the common dates, ascending.
AlignedTo(s, original) ==
    /\ IdxSet(s) = CommonDates
    /\ Len(s) = Cardinality(CommonDates)
    /\ Ascending(s)
    /\ Rows(s) \subseteq Rows(original)

\* The body of the rendered element of this kind and label.
Shown(kind, about) ==
    (CHOOSE e \in Rows(ui) : e.kind = kind /\ e.about = about).body

\* The rows of the series dated in the common dates, in the series' order.
OnCommonDates(original) == SelectSeq(original, LAMBDA r : r.idx \in CommonDates)

\* C7: when both tickers return data, the series passed to
\* calculate_drawdown for ticker 1 (its recomputation) and for ticker 2 both
\* cover exactly the intersection of the two original date indices, have
\* equal length and ascend by date, and the statistics shown for ticker 1
\* are those of the aligned series.
C7_Alignment ==
    BothReturned =>
        /\ Len(calls) <= 3
        /\ Len(calls) >= 2 => AlignedTo(calls[2], The(returned[1]))
        /\ Len(calls) >= 3 => /\ AlignedTo(calls[3], The(returned[2]))
                              /\ Len(calls[3]) = Len(calls[2])
                              /\ Idx(calls[3]) = Idx(calls[2])
        /\ Rendered("statistics") =>
              LET aligned == calculate_drawdown(OnCommonDates(The(returned[1])))[1]
              IN  /\ Shown("metric", <<ticker1, "Max DD">>) = Fmt2(SeriesMin(aligned))
                  /\ Shown("metric", <<ticker1, "Current DD">>) = Fmt2(iloc_last(aligned))
                  /\ Shown("statistics", <<"Drawdown Statistics">>)[1].lines
                        = StatLines(aligned)

\* The worked example: A over d1..d5 and B over d2..d6 give d2..d5, and the
\* maximum drawdown shown for A is that of d2..d5, not that of d1..d5.
C7_Witness ==
    /\ pc = "done"
    /\ returned = <<Some(ExampleA), Some(ExampleB)>>
    /\ Len(calls) = 3
    /\ Idx(calls[2]) = <<2, 3, 4, 5>> /\ Idx(calls[3]) = <<2, 3, 4, 5>>
    /\ Rendered("statistics")
    /\ Shown("metric", <<ticker1, "Max DD">>)
          # Fmt2(SeriesMin(calculate_drawdown(ExampleA)[1]))

\* m is the least value of the series.
IsMinimumOf(m, s) ==
    /\ \E t \in 1..Len(s) : RatEQ(s[t].val, m)
    /\ \A t \in 1..Len(s) : RatLE(m, s[t].val)

\* d is the date of the first row whose value is m.
IsEarliestDateOf(d, m, s) ==
    \E t \in 1..Len(s) :
        /\ s[t].idx = d
        /\ RatEQ(s[t].val, m)
        /\ \A u \in 1..t - 1 : ~RatEQ(s[u].val, m)

ReportedFor(ticker, drawdown, max_drawdown, max_drawdown_date) ==
    /\ Len(drawdown) > 0
    /\ IsMinimumOf(max_drawdown, drawdown)
    /\ IsEarliestDateOf(max_drawdown_date, max_drawdown, drawdown)
    /\ Shown("metric", <<ticker, "Max DD">>) = Fmt2(max_drawdown)
    /\ Shown("metric", <<ticker, "Max DD Date">>) = strftime(max_drawdown_date)
    /\ Shown("metric", <<ticker, "Current DD">>) = Fmt2(drawdown[Len(drawdown)].val)

ExamplePrices == <<100, 90, 95, 80, 120>>

\* C8: in every run that shows the metrics, the maximum drawdown reported
\* for each ticker is the minimum of its drawdown series, its date is the
\* earliest date of that minimum, and the current drawdown is the value of
\* the last row; prices [100, 90, 95, 80, 120] give peak [100, 100, 100,
\* 100, 120], drawdown [0, -10, -5, -20, 0], maximum drawdown -20 at index 3
\* (the fourth row) and latest drawdown 0.
C8_ReportedStatistics ==
    Rendered("metric") =>
        /\ ReportedFor(ticker1, drawdown1, max_drawdown1, max_drawdown_date1)
        /\ ReportedFor(ticker2, drawdown2, max_drawdown2, max_drawdown_date2)
        /\ Vals(prices1) = ExamplePrices =>
              /\ Vals(cumulative_max1) = <<100, 100, 100, 100, 120>>
              /\ Vals(drawdown1) = <<RatOfInt(0), RatOfInt(-10), RatOfInt(-5),
                                     RatOfInt(-20), RatOfInt(0)>>
              /\ max_drawdown1 = RatOfInt(-20)
              /\ max_drawdown_date1 = Idx(prices1)[4]
              /\ Shown("metric", <<ticker1, "Max DD">>) = <<-2000>>
              /\ Shown("metric", <<ticker1, "Current DD">>) = <<0>>

\* The example series is shown for both tickers: -20.00 on the fourth date.
C8_Witness ==
    /\ pc = "done" /\ Rendered("metric")
    /\ Vals(prices1) = ExamplePrices /\ Vals(prices2) = ExamplePrices
    /\ Shown("metric", <<ticker1, "Max DD">>) = <<-2000>>
    /\ Shown("metric", <<ticker2, "Max DD Date">>) = strftime(4)

\* ---- the fetch cache (SpecCache)
OneHour == 60 * 60

Age == lastCall.at - lastCall.found.at

\* C9: a call returns a stored result without contacting the provider only
\* if a result for the same (ticker, period) was stored at most one hour
\* earlier, and then it returns that result; a call that finds an entry
\* older than one hour fetches from the provider again and stores the new
\* result; no result is returned for a key other than the one it was stored
\* under.
C9_CacheKeyedWithExpiry ==
    /\ lastCall.hit =>
          /\ lastCall.found.is
          /\ lastCall.found.args = lastCall.args
          /\ Age <= OneHour
          /\ lastCall.value[1] # None =>
                The(lastCall.value[1])[1].idx
                    = <<lastCall.args[1], lastCall.args[2], lastCall.found.at>>
    /\ (lastCall.found.is /\ Age > OneHour) => ~lastCall.hit
    /\ (ncalls > 0 /\ ~lastCall.hit) =>
          /\ \E e \in cache : e.args = lastCall.args /\ e.at = lastCall.at
                              /\ e.value = lastCall.value
          /\ lastCall.value[1] # None =>
                The(lastCall.value[1])[1].idx
                    = <<lastCall.args[1], lastCall.args[2], lastCall.at>>

\* A call answered from an entry stored half an hour earlier, while another
\* key is cached too.
C9_Witness ==
    /\ lastCall.hit /\ Age = 1800
    /\ lastCall.value[1] # None
    /\ \E e \in cache : e.args # lastCall.args

=============================================================================
